---- MODULE Spec2Model ----
(***************************************************************************)
(* Model of font/font_patch.py: locating the zstd-compressed glyph table   *)
(* inside a host binary, repainting the glyphs of a language's codepoint   *)
(* ranges, recompressing and splicing the stream back.                     *)
(*                                                                         *)
(* Byte strings are sequences of 0..255.  Python offsets are 0-based; the  *)
(* byte at Python offset i of a sequence s is s[i + 1].                    *)
(***************************************************************************)
EXTENDS Integers, Sequences, FiniteSets, TLC

VARIABLES
    pc,         \* position in main(), or "exit" once the process has ended
    exitCode,   \* -1 while running, then the process exit status
    error,      \* "" or the kind of the exit taken
    argv,       \* sys.argv
    configFile, \* config.txt: "missing" or its sequence of lines
    fontDir,    \* listing of the font/ directory
    file,       \* bytes of the host file on disk
    file0,      \* bytes of the host file when the run started
    writes,     \* number of write_bytes calls made so far
    stages,     \* stages of main() that have completed
    lang, cfg, raw, offset, bundle, bundle0, limit, ranges, ft, written, comp,
    bitmap,     \* codec: a glyph bitmap handed to the packing loop
    packed      \* codec: the bytes the packing loop stored for it

vars == <<pc, exitCode, error, argv, configFile, fontDir, file, file0, writes,
          stages, lang, cfg, raw, offset, bundle, bundle0, limit, ranges, ft,
          written, comp, bitmap, packed>>

(***************************************************************************)
(* Constants of the program.                                               *)
(***************************************************************************)
GLYPH_W == 16
GLYPH_H == 16
BYTES_PER_ROW == 2
BYTES_PER_GLYPH == GLYPH_H * BYTES_PER_ROW

\* Number of glyph slots of the table.  The program has 0x10000 of them; the
\* model keeps the layout (32 bytes per slot) and scales the number of slots.
NumCodepoints == 24

EXPECTED_SIZE == NumCodepoints * BYTES_PER_GLYPH

MAGIC == <<40, 181, 47, 253>>

(***************************************************************************)
(* Codepoint ranges, [start, end).  The codepoint axis is scaled with the  *)
(* table: the ranges keep the program's order, their half-open ends, the   *)
(* unpatched slot between neighbouring ranges and the composition of the   *)
(* Latin sets.                                                             *)
(***************************************************************************)
HANGUL_SYLLABLES == << <<21, 23>> >>
JAPANESE_KANA == << <<13, 14>>, <<15, 16>>, <<17, 18>> >>
CJK_UNIFIED_IDEOGRAPHS == << <<19, 20>> >>
LATIN_BASIC == << <<3, 4>>, <<5, 6>> >>
LATIN_ACCENTED == LATIN_BASIC \o << <<7, 8>> >>
LATIN_EXT_A == LATIN_ACCENTED \o << <<9, 10>> >>
CYRILLIC == << <<11, 12>> >>
DIGITS == << <<1, 2>> >>

FONT_RANGES ==
    [l \in {"ko", "ja", "en", "fr", "frCA", "de", "it", "nl", "es", "es419",
            "pt", "ptBR", "pl", "ru", "ua"} |->
        CASE l = "ko" -> HANGUL_SYLLABLES
          [] l = "ja" -> JAPANESE_KANA \o CJK_UNIFIED_IDEOGRAPHS
          [] l = "en" -> LATIN_BASIC
          [] l = "pl" -> LATIN_EXT_A
          [] l \in {"ru", "ua"} -> CYRILLIC
          [] OTHER -> LATIN_ACCENTED]

(***************************************************************************)
(* Byte-string helpers (Python slicing and bytes.find).                    *)
(***************************************************************************)
Min(S) == CHOOSE x \in S : \A y \in S : x <= y

\* s[a:] for 0 <= a
SliceFrom(s, a) == IF a >= Len(s) THEN << >> ELSE SubSeq(s, a + 1, Len(s))

\* s[:b] for 0 <= b
SliceTo(s, b) == IF b >= Len(s) THEN s ELSE SubSeq(s, 1, b)

Repeat(b, n) == [k \in 1..n |-> b]

\* raw.find(MAGIC, p): the lowest offset i >= p where MAGIC starts, or -1
Find(s, p) ==
    LET hits == {i \in p..(Len(s) - Len(MAGIC)) :
                    SubSeq(s, i + 1, i + Len(MAGIC)) = MAGIC}
    IN  IF hits = {} THEN -1 ELSE Min(hits)

(***************************************************************************)
(* The compression library, as a run-length codec that keeps what the      *)
(* program relies on: a frame starts with MAGIC and ends at its own end    *)
(* marker (the bytes after it are ignored); decompression fails on a       *)
(* frame that is cut short and when the output would exceed                *)
(* max_output_size; the length of a compressed table depends on its        *)
(* content; and decompress(compress(t)) = t.  A frame is MAGIC, then       *)
(* blocks <<n, b>> (n copies of byte b, 1 <= n <= 255), then the end       *)
(* marker 0.                                                               *)
(***************************************************************************)
\* the blocks for t[lo..hi]: one block if the bytes are all equal and fit,
\* else the blocks of the two halves
RECURSIVE Blocks(_, _, _)
Blocks(t, lo, hi) ==
    IF lo > hi THEN << >>
    ELSE IF hi - lo < 255 /\ \A k \in lo..hi : t[k] = t[lo]
    THEN <<hi - lo + 1, t[lo]>>
    ELSE LET mid == (lo + hi) \div 2
         IN  Blocks(t, lo, mid) \o Blocks(t, mid + 1, hi)

ZstdCompress(t) == MAGIC \o Blocks(t, 1, Len(t)) \o <<0>>

\* the bytes of blocks first..last of a frame whose blocks start at s[at]
RECURSIVE Expand(_, _, _, _)
Expand(s, at, first, last) ==
    IF first > last THEN << >>
    ELSE IF first = last
    THEN Repeat(s[at + 2 * (first - 1) + 1], s[at + 2 * (first - 1)])
    ELSE LET mid == (first + last) \div 2
         IN  Expand(s, at, first, mid) \o Expand(s, at, mid + 1, last)

\* the sum of the lengths of blocks first..last
RECURSIVE BlocksSize(_, _, _, _)
BlocksSize(s, at, first, last) ==
    IF first > last THEN 0
    ELSE IF first = last THEN s[at + 2 * (first - 1)]
    ELSE LET mid == (first + last) \div 2
         IN  BlocksSize(s, at, first, mid) + BlocksSize(s, at, mid + 1, last)

\* ZstdDecompressor().decompress(data, max_output_size = maxOut); ok = FALSE
\* stands for the exception the library raises.
ZstdDecompress(data, maxOut) ==
    LET at == Len(MAGIC) + 1
        failed == [ok |-> FALSE, out |-> << >>]
        \* numbers n such that n blocks and then the end marker follow MAGIC
        ends == {n \in 0..((Len(data) - Len(MAGIC)) \div 2) :
                    /\ at + 2 * n <= Len(data)
                    /\ data[at + 2 * n] = 0
                    /\ \A k \in 0..(n - 1) : data[at + 2 * k] # 0}
    IN  IF Len(data) < Len(MAGIC) \/ SubSeq(data, 1, Len(MAGIC)) # MAGIC THEN failed
        ELSE IF ends = {} THEN failed
        ELSE LET n == CHOOSE x \in ends : TRUE
             IN  IF BlocksSize(data, at, 1, n) > maxOut THEN failed
                 ELSE [ok |-> TRUE, out |-> Expand(data, at, 1, n)]

(***************************************************************************)
(* find_font_bundle                                                        *)
(***************************************************************************)
RECURSIVE ScanPositions(_, _, _)
ScanPositions(s, p, positions) ==
    LET i == Find(s, p)
    IN  IF i < 0 THEN positions
        ELSE ScanPositions(s, i + 1, Append(positions, i))

\* LimitAt without the look at the later candidates
LimitToEnd(s, positions, pos) == Len(s) - pos

\* limit for the candidate at pos
LimitAt(s, positions, pos) ==
    LET nxt == SelectSeq(positions, LAMBDA x : x > pos)
    IN  IF nxt # << >> THEN nxt[1] - pos ELSE Len(s) - pos

\* Accepts with "<=" for "==" in the test of the length
AcceptsAtMost(s, pos) ==
    LET dec == ZstdDecompress(SliceFrom(s, pos), EXPECTED_SIZE)
    IN  dec.ok /\ Len(dec.out) <= EXPECTED_SIZE

\* Accepts without the test of the length
AcceptsAnyFrame(s, pos) == ZstdDecompress(SliceFrom(s, pos), EXPECTED_SIZE).ok

\* the test of one candidate: the try block of the loop
Accepts(s, pos) ==
    LET dec == ZstdDecompress(SliceFrom(s, pos), EXPECTED_SIZE)
    IN  dec.ok /\ Len(dec.out) = EXPECTED_SIZE

RECURSIVE TryCandidates(_, _, _)
TryCandidates(s, positions, k) ==
    IF k > Len(positions)
    THEN [found |-> FALSE, pos |-> -1, dec |-> << >>, limit |-> -1]
    ELSE IF Accepts(s, positions[k])
    THEN [found |-> TRUE, pos |-> positions[k],
          dec |-> ZstdDecompress(SliceFrom(s, positions[k]), EXPECTED_SIZE).out,
          limit |-> LimitAt(s, positions, positions[k])]
    ELSE TryCandidates(s, positions, k + 1)

find_font_bundle(s) == TryCandidates(s, ScanPositions(s, 0, << >>), 1)

(***************************************************************************)
(* load_config                                                             *)
(***************************************************************************)
\* str.lower() on the values the configurations of the model use
Lower(v) ==
    CASE v \in {"true", "True", "TRUE"} -> "true"
      [] v \in {"false", "False"} -> "false"
      [] OTHER -> v

\* A line is [eq |-> FALSE] (no "=" in it) or [eq |-> TRUE, key, val], the
\* text before and after the first "=".
RECURSIVE ConfigLines(_, _, _)
ConfigLines(lines, k, c) ==
    IF k > Len(lines) THEN c
    ELSE IF ~lines[k].eq THEN ConfigLines(lines, k + 1, c)
    ELSE IF lines[k].key = "font_num"
    THEN ConfigLines(lines, k + 1, [c EXCEPT !.font_num = (Lower(lines[k].val) = "true")])
    ELSE ConfigLines(lines, k + 1, c)

load_config(f) ==
    IF f = "missing" THEN [font_num |-> FALSE]
    ELSE ConfigLines(f, 1, [font_num |-> FALSE])

(***************************************************************************)
(* pick_font: the *.ttf files of the listing, then the *.otf files.        *)
(***************************************************************************)
FontFiles(dir) ==
    SelectSeq(dir, LAMBDA e : e.ext = "ttf") \o SelectSeq(dir, LAMBDA e : e.ext = "otf")

(***************************************************************************)
(* rasterize_char.  The image the font library draws is an input: a font   *)
(* of the model gives the luminance of each pixel of each glyph.           *)
(***************************************************************************)
Luminance(f, cp, cx, cy) ==
    CASE f = "blank" -> IF cx % 2 = 0 THEN 0 ELSE 128
      [] f = "solid" -> IF cy % 2 = 0 THEN 255 ELSE 129
      [] OTHER -> IF cx <= (cy + cp) % GLYPH_W
                  THEN (IF cx % 2 = 0 THEN 255 ELSE 129)
                  ELSE (IF cx % 2 = 0 THEN 0 ELSE 128)

rasterize_char(f, cp) ==
    [cy \in 1..GLYPH_H |-> [cx \in 1..GLYPH_W |-> Luminance(f, cp, cx - 1, cy - 1) > 128]]

(***************************************************************************)
(* The packing loop of main().                                             *)
(***************************************************************************)
\* v | m for a mask m with a single bit set
BitOr(v, m) == IF (v \div m) % 2 = 1 THEN v ELSE v + m

\* RowValue with the shift taken within one byte
RECURSIVE RowValueByteWide(_, _, _)
RowValueByteWide(row, bit, v) ==
    IF bit >= Len(row) THEN v
    ELSE RowValueByteWide(row, bit + 1,
                          IF row[bit + 1] THEN BitOr(v, 2 ^ ((15 - bit) % 8)) ELSE v)

\* for bit, on in enumerate(row): if on: v |= 1 << (15 - bit)
RECURSIVE RowValue(_, _, _)
RowValue(row, bit, v) ==
    IF bit >= Len(row) THEN v
    ELSE RowValue(row, bit + 1, IF row[bit + 1] THEN BitOr(v, 2 ^ (15 - bit)) ELSE v)

\* RowByte with the two bytes of a row in the other order
RowByteHighFirst(bm, r, d) ==
    LET v == RowValue(bm[r + 1], 0, 0)
    IN  IF d = 1 THEN v % 256 ELSE (v \div 256) % 256

\* the bytes of row r: bundle[off + r*2] = v & 0xFF, bundle[off + r*2 + 1] = (v >> 8) & 0xFF
RowByte(bm, r, d) ==
    LET v == RowValue(bm[r + 1], 0, 0)
    IN  IF d = 0 THEN v % 256 ELSE (v \div 256) % 256

\* the 32 bytes the row loop stores for one bitmap, in the order of their offsets
Pack(bm) ==
    [k \in 1..(GLYPH_H * 2) |-> RowByte(bm, (k - 1) \div 2, (k - 1) % 2)]

\* b after the row loop has stored the bitmap at off = cp * BYTES_PER_GLYPH
WriteGlyph(b, cp, bm) ==
    LET off == cp * BYTES_PER_GLYPH
    IN  SliceTo(b, off) \o Pack(bm) \o SliceFrom(b, off + GLYPH_H * 2)

\* PatchRange with the end of the range included
RECURSIVE PatchRangeInclusive(_, _, _, _)
PatchRangeInclusive(b, f, cp, end) ==
    IF cp > end THEN b
    ELSE PatchRangeInclusive(WriteGlyph(b, cp, rasterize_char(f, cp)), f, cp + 1, end)

\* for cp in range(start, end)
RECURSIVE PatchRange(_, _, _, _)
PatchRange(b, f, cp, end) ==
    IF cp >= end THEN b
    ELSE PatchRange(WriteGlyph(b, cp, rasterize_char(f, cp)), f, cp + 1, end)

\* for (start, end) in ranges
RECURSIVE PatchRanges(_, _, _, _)
PatchRanges(b, f, rs, k) ==
    IF k > Len(rs) THEN b
    ELSE PatchRanges(PatchRange(b, f, rs[k][1], rs[k][2]), f, rs, k + 1)

\* the offsets the loop assigns to
WriteIndices(rs) ==
    {cp * BYTES_PER_GLYPH + r * 2 + d :
        cp \in UNION {rs[k][1]..(rs[k][2] - 1) : k \in 1..Len(rs)},
        r \in 0..(GLYPH_H - 1), d \in {0, 1}}

\* Splice that inserts the stream instead of overwriting with it
SpliceInsert(s, off, c) == SliceTo(s, off) \o c \o SliceFrom(s, off)

\* raw[offset:offset+len(comp)] = comp
Splice(s, off, c) == SliceTo(s, off) \o c \o SliceFrom(s, off + Len(c))

(***************************************************************************)
(* Inputs of the model.                                                    *)
(***************************************************************************)
\* Bytes left after the compressed table in the host files that have room.
Slack == 100

\* Segments a locator buffer is made of, at most.
MaxSegments == 3

RECURSIVE Cat(_)
Cat(ss) == IF ss = << >> THEN << >> ELSE Head(ss) \o Cat(Tail(ss))

ZeroTable == Repeat(0, EXPECTED_SIZE)
BaseTable == [i \in 1..EXPECTED_SIZE |-> ((i - 1) \div BYTES_PER_GLYPH) + 1]

ArgvInputs ==
    {<<"font_patch.py">>, <<"font_patch.py", "ko">>}
    \cup {<<"font_patch.py", l, "DBI.nro">> : l \in {"ko", "ja", "pl", "ru", "zh"}}

NoConfig == [exists |-> FALSE, lines |-> << >>]
ConfigInputs ==
    {NoConfig,
     [exists |-> TRUE, lines |-> <<[eq |-> TRUE, key |-> "font_num", val |-> "True"]>>],
     [exists |-> TRUE, lines |-> <<[eq |-> FALSE, key |-> "", val |-> ""],
                                   [eq |-> TRUE, key |-> "font_num", val |-> "true"],
                                   [eq |-> TRUE, key |-> "other", val |-> "true"],
                                   [eq |-> TRUE, key |-> "font_num", val |-> "yes"]>>]}

FontDirInputs ==
    {<<[name |-> "README", ext |-> "txt", face |-> "none"]>>,
     <<[name |-> "tri", ext |-> "ttf", face |-> "tri"]>>,
     <<[name |-> "solid", ext |-> "otf", face |-> "solid"]>>,
     <<[name |-> "solid", ext |-> "otf", face |-> "solid"],
       [name |-> "blank", ext |-> "ttf", face |-> "blank"]>>}

\* Host files: [decoy bytes][magic][garbage][magic][compressed table][trailing]
\* and variations of it, and two files without a table.
HostFiles ==
    {Cat(<<before, ZstdCompress(table), trailing>>) :
        before \in {<< >>, <<77, 90, 0, 1>> \o MAGIC \o <<9, 9, 9>>,
                    <<77, 90>> \o MAGIC \o <<2, 9, 0, 5>>},
        table \in {ZeroTable, BaseTable},
        trailing \in {<< >>, Repeat(170, Slack), MAGIC \o <<1, 2>>,
                      Repeat(170, Slack) \o MAGIC \o <<3>>}}
    \cup {<<77, 90, 0, 1>>, <<77>> \o MAGIC \o <<2, 9, 0>> \o MAGIC \o <<9>>}

\* Segments of the buffers the locator is tried on.
Segments ==
    {<<1, 2, 3>>,                                     \* no magic
     <<0, 0>>,
     MAGIC \o <<7, 7, 7>>,                            \* a frame cut short
     MAGIC \o <<2, 9, 0>>,                            \* a frame of 2 bytes
     MAGIC \o <<255, 1, 255, 1, 255, 1, 255, 1, 0>>,  \* a frame of 1020 bytes
     MAGIC \o MAGIC,
     ZstdCompress(ZeroTable),
     ZstdCompress(BaseTable)}

RECURSIVE SegmentSeqs(_)
SegmentSeqs(n) ==
    IF n = 0 THEN {<< >>}
    ELSE LET shorter == SegmentSeqs(n - 1)
         IN  shorter \cup {Append(ss, g) : ss \in shorter, g \in Segments}

LocateBuffers == {Cat(ss) : ss \in SegmentSeqs(MaxSegments)}

\* Rows and bitmaps the packing loop is tried on.
RowSamples ==
    {[cx \in 1..GLYPH_W |-> cx = k] : k \in {1, 2, 8, 9, 16}}
    \cup {[cx \in 1..GLYPH_W |-> FALSE], [cx \in 1..GLYPH_W |-> TRUE],
          [cx \in 1..GLYPH_W |-> cx % 2 = 0], [cx \in 1..GLYPH_W |-> cx <= 8],
          [cx \in 1..GLYPH_W |-> cx \in {1, 16}]}

BitmapSamples ==
    {[cy \in 1..GLYPH_H |-> IF cy = r THEN a ELSE b] :
        r \in 1..GLYPH_H, a \in RowSamples, b \in RowSamples}

\* The state of a process that has not started.
Start(a, c, d, f, at, bm) ==
    /\ pc = at /\ exitCode = -1 /\ error = ""
    /\ argv = a /\ configFile = c /\ fontDir = d
    /\ file = f /\ file0 = f /\ writes = 0 /\ stages = {}
    /\ lang = "" /\ cfg = [font_num |-> FALSE]
    /\ raw = (IF at = "locate" THEN f ELSE << >>)
    /\ offset = -1 /\ bundle = << >> /\ bundle0 = << >> /\ limit = -1
    /\ ranges = << >> /\ ft = "" /\ written = {} /\ comp = << >>
    /\ bitmap = bm /\ packed = << >>

NoBitmap == [cy \in 1..GLYPH_H |-> [cx \in 1..GLYPH_W |-> FALSE]]

\* A run that stops at the usage message reads none of its other inputs.
Init ==
    \E a \in ArgvInputs, c \in ConfigInputs, d \in FontDirInputs, f \in HostFiles :
        /\ Len(a) < 3 => c = NoConfig /\ Len(d) = 2 /\ f = <<77, 90, 0, 1>>
        /\ Start(a, c, d, f, "args", NoBitmap)

InitLocate ==
    \E f \in LocateBuffers :
        Start(<<"font_patch.py", "ko", "DBI.nro">>, NoConfig, << >>, f, "locate", NoBitmap)

InitCodec ==
    \E bm \in BitmapSamples :
        Start(<<"font_patch.py", "ko", "DBI.nro">>, NoConfig, << >>, << >>, "pack", bm)

(***************************************************************************)
(* main(), one action per step.                                            *)
(***************************************************************************)
Exit(code, kind) == pc' = "exit" /\ exitCode' = code /\ error' = kind

CheckArgs ==
    /\ pc = "args"
    /\ IF Len(argv) < 3
       THEN Exit(1, "Usage") /\ UNCHANGED lang
       ELSE pc' = "config" /\ lang' = argv[2] /\ UNCHANGED <<exitCode, error>>
    /\ UNCHANGED <<argv, configFile, fontDir, file, file0, writes, stages, cfg, raw,
                   offset, bundle, bundle0, limit, ranges, ft, written, comp,
                   bitmap, packed>>

LoadConfig ==
    /\ pc = "config"
    /\ cfg' = (IF configFile.exists THEN load_config(configFile.lines)
               ELSE load_config("missing"))
    /\ pc' = "lang"
    /\ UNCHANGED <<exitCode, error, argv, configFile, fontDir, file, file0, writes,
                   stages, lang, raw, offset, bundle, bundle0, limit, ranges, ft,
                   written, comp, bitmap, packed>>

CheckLang ==
    /\ pc = "lang"
    /\ IF lang \notin DOMAIN FONT_RANGES
       THEN Exit(0, "UnsupportedLanguage") /\ UNCHANGED stages
       ELSE pc' = "read" /\ stages' = stages \cup {"lang"} /\ UNCHANGED <<exitCode, error>>
    /\ UNCHANGED <<argv, configFile, fontDir, file, file0, writes, lang, cfg, raw,
                   offset, bundle, bundle0, limit, ranges, ft, written, comp,
                   bitmap, packed>>

ReadFile ==
    /\ pc = "read"
    /\ raw' = file
    /\ pc' = "locate"
    /\ UNCHANGED <<exitCode, error, argv, configFile, fontDir, file, file0, writes,
                   stages, lang, cfg, offset, bundle, bundle0, limit, ranges, ft,
                   written, comp, bitmap, packed>>

FindBundle ==
    /\ pc = "locate"
    /\ LET res == find_font_bundle(raw)
       IN  IF res.found
           THEN /\ offset' = res.pos /\ bundle' = res.dec /\ bundle0' = res.dec
                /\ limit' = res.limit
                /\ pc' = "ranges" /\ stages' = stages \cup {"locate"}
                /\ UNCHANGED <<exitCode, error>>
           ELSE /\ Exit(1, "BundleNotFound")
                /\ UNCHANGED <<offset, bundle, bundle0, limit, stages>>
    /\ UNCHANGED <<argv, configFile, fontDir, file, file0, writes, lang, cfg, raw,
                   ranges, ft, written, comp, bitmap, packed>>

SelectRanges ==
    /\ pc = "ranges"
    /\ ranges' = (IF cfg.font_num THEN FONT_RANGES[lang] \o DIGITS ELSE FONT_RANGES[lang])
    /\ pc' = "font"
    /\ UNCHANGED <<exitCode, error, argv, configFile, fontDir, file, file0, writes,
                   stages, lang, cfg, raw, offset, bundle, bundle0, limit, ft,
                   written, comp, bitmap, packed>>

PickFont ==
    /\ pc = "font"
    /\ LET files == FontFiles(fontDir)
       IN  IF files = << >>
           THEN Exit(1, "FontAssetMissing") /\ UNCHANGED <<ft, stages>>
           ELSE /\ ft' = files[1].face /\ pc' = "patch"
                /\ stages' = stages \cup {"font"} /\ UNCHANGED <<exitCode, error>>
    /\ UNCHANGED <<argv, configFile, fontDir, file, file0, writes, lang, cfg, raw,
                   offset, bundle, bundle0, limit, ranges, written, comp,
                   bitmap, packed>>

PatchGlyphs ==
    /\ pc = "patch"
    /\ bundle' = PatchRanges(bundle, ft, ranges, 1)
    /\ written' = WriteIndices(ranges)
    /\ pc' = "compress"
    /\ stages' = stages \cup {"patch"}
    /\ UNCHANGED <<exitCode, error, argv, configFile, fontDir, file, file0, writes,
                   lang, cfg, raw, offset, bundle0, limit, ranges, ft, comp,
                   bitmap, packed>>

\* Compress applied to the table as it was located
CompressUnpatched ==
    /\ pc = "compress"
    /\ comp' = ZstdCompress(bundle0)
    /\ pc' = "check"
    /\ UNCHANGED <<exitCode, error, argv, configFile, fontDir, file, file0, writes,
                   stages, lang, cfg, raw, offset, bundle, bundle0, limit, ranges,
                   ft, written, bitmap, packed>>

Compress ==
    /\ pc = "compress"
    /\ comp' = ZstdCompress(bundle)
    /\ pc' = "check"
    /\ UNCHANGED <<exitCode, error, argv, configFile, fontDir, file, file0, writes,
                   stages, lang, cfg, raw, offset, bundle, bundle0, limit, ranges,
                   ft, written, bitmap, packed>>

\* CheckBudget with ">=" for ">"
CheckBudgetStrict ==
    /\ pc = "check"
    /\ IF Len(comp) >= limit
       THEN Exit(1, "BundleTooLarge") /\ UNCHANGED stages
       ELSE pc' = "write" /\ stages' = stages \cup {"budget"} /\ UNCHANGED <<exitCode, error>>
    /\ UNCHANGED <<argv, configFile, fontDir, file, file0, writes, lang, cfg, raw,
                   offset, bundle, bundle0, limit, ranges, ft, written, comp,
                   bitmap, packed>>

\* CheckBudget placed after the splice and the write
CheckBudgetAfterWrite ==
    /\ pc = "check"
    /\ file' = Splice(raw, offset, comp)
    /\ writes' = writes + 1
    /\ IF Len(comp) > limit
       THEN Exit(1, "BundleTooLarge") /\ UNCHANGED stages
       ELSE Exit(0, "") /\ stages' = stages \cup {"budget"}
    /\ UNCHANGED <<argv, configFile, fontDir, file0, lang, cfg, raw,
                   offset, bundle, bundle0, limit, ranges, ft, written, comp,
                   bitmap, packed>>

CheckBudget ==
    /\ pc = "check"
    /\ IF Len(comp) > limit
       THEN Exit(1, "BundleTooLarge") /\ UNCHANGED stages
       ELSE pc' = "write" /\ stages' = stages \cup {"budget"} /\ UNCHANGED <<exitCode, error>>
    /\ UNCHANGED <<argv, configFile, fontDir, file, file0, writes, lang, cfg, raw,
                   offset, bundle, bundle0, limit, ranges, ft, written, comp,
                   bitmap, packed>>

WriteBack ==
    /\ pc = "write"
    /\ raw' = Splice(raw, offset, comp)
    /\ file' = raw'
    /\ writes' = writes + 1
    /\ Exit(0, "")
    /\ UNCHANGED <<argv, configFile, fontDir, file0, stages, lang, cfg, offset,
                   bundle, bundle0, limit, ranges, ft, written, comp, bitmap, packed>>

\* the packing loop on its own, applied to one bitmap
PackGlyph ==
    /\ pc = "pack"
    /\ packed' = Pack(bitmap)
    /\ pc' = "packed"
    /\ UNCHANGED <<exitCode, error, argv, configFile, fontDir, file, file0, writes,
                   stages, lang, cfg, raw, offset, bundle, bundle0, limit, ranges,
                   ft, written, comp, bitmap>>

Next ==
    \/ CheckArgs \/ LoadConfig \/ CheckLang \/ ReadFile \/ FindBundle
    \/ SelectRanges \/ PickFont \/ PatchGlyphs \/ Compress \/ CheckBudget
    \/ WriteBack

Spec == Init /\ [][Next]_vars

NextLocate == FindBundle

SpecLocate == InitLocate /\ [][NextLocate]_vars

NextCodec == PackGlyph

SpecCodec == InitCodec /\ [][NextCodec]_vars

(***************************************************************************)
(* Notions the properties are stated with.                                 *)
(***************************************************************************)
\* the offsets at which MAGIC occurs in s
MagicOffsets(s) ==
    {i \in 0..(Len(s) - Len(MAGIC)) : SubSeq(s, i + 1, i + Len(MAGIC)) = MAGIC}

\* what the stream at offset i of s decompresses to, with no cap on its size
StreamAt(s, i) == ZstdDecompress(SliceFrom(s, i), 255 * Len(s))

\* the stream at offset i decompresses without error to exactly the table size
ValidAt(s, i) == StreamAt(s, i).ok /\ Len(StreamAt(s, i).out) = EXPECTED_SIZE

ValidOffsets(s) == {i \in MagicOffsets(s) : ValidAt(s, i)}

Located == "locate" \in stages
Patched == "patch" \in stages
Succeeded == pc = "exit" /\ error = "" /\ exitCode = 0

\* the codepoints of the ranges of the language tag, with the digits when
\* font_num is set
Selected(l, fontNum) ==
    UNION {FONT_RANGES[l][k][1]..(FONT_RANGES[l][k][2] - 1) : k \in 1..Len(FONT_RANGES[l])}
    \cup (IF fontNum THEN UNION {DIGITS[k][1]..(DIGITS[k][2] - 1) : k \in 1..Len(DIGITS)}
          ELSE {})

\* the table offsets of the slot of codepoint c
Slot(c) == (c * 32)..(c * 32 + 31)

\* bit n of v
Bit(v, n) == (v \div (2 ^ n)) % 2 = 1

\* unpack, the inverse the packed format is specified to have: pixel
\* (r, column) is bit 15 - column of the little-endian 16-bit word of row r
Unpack(bytes) ==
    [cy \in 1..16 |-> [cx \in 1..16 |->
        Bit(bytes[2 * (cy - 1) + 1] + 256 * bytes[2 * (cy - 1) + 2], 15 - (cx - 1))]]

(***************************************************************************)
(* C1: the host file is written at most once, and only after the language  *)
(* lookup, the bundle location, the font selection, the glyph patching and *)
(* the budget check have succeeded; a run that ends in UnsupportedLanguage,*)
(* FontAssetMissing, BundleNotFound or BundleTooLarge has written nothing, *)
(* and the file holds its original bytes.                                  *)
(***************************************************************************)
WriteOnlyAfterAllStages ==
    /\ writes <= 1
    /\ (writes > 0 \/ file # file0) =>
          {"lang", "locate", "font", "patch", "budget"} \subseteq stages
    /\ error \in {"UnsupportedLanguage", "FontAssetMissing", "BundleNotFound",
                  "BundleTooLarge"} =>
          writes = 0 /\ file = file0

WitWrittenOnce == Succeeded /\ writes = 1 /\ file # file0

(***************************************************************************)
(* C2: find_font_bundle returns the lowest offset of a magic occurrence     *)
(* whose stream decompresses without error to exactly the expected size;   *)
(* occurrences that fail to decompress or decompress to another length are *)
(* skipped, wherever the valid one sits among them.                        *)
(***************************************************************************)
LowestValidOffsetChosen ==
    pc # "locate" /\ ValidOffsets(raw) # {} =>
        /\ Located
        /\ offset = Min(ValidOffsets(raw))
        /\ bundle0 = StreamAt(raw, offset).out

\* the only valid stream sits behind a decoy that decompresses to another
\* length, and the buffer holds a decoy that fails to decompress
WitDecoysSkipped ==
    /\ Located
    /\ ValidOffsets(raw) = {offset}
    /\ \E j \in MagicOffsets(raw) :
          j < offset /\ StreamAt(raw, j).ok /\ Len(StreamAt(raw, j).out) # EXPECTED_SIZE
    /\ \E i \in MagicOffsets(raw) : ~StreamAt(raw, i).ok

(***************************************************************************)
(* C3: the budget returned with the accepted offset O is O2 - O for the    *)
(* smallest magic occurrence O2 > O, valid stream or not, and              *)
(* len(buffer) - O when no magic occurrence lies after O.                  *)
(***************************************************************************)
BudgetIsDistanceToNextMagic ==
    Located =>
        LET later == {i \in MagicOffsets(raw) : i > offset}
        IN  limit = (IF later = {} THEN Len(raw) - offset ELSE Min(later) - offset)

WitBudgetToInvalidMagic ==
    /\ Located
    /\ \E i \in MagicOffsets(raw) : i > offset /\ ~ValidAt(raw, i) /\ limit = i - offset
    /\ limit < Len(raw) - offset

(***************************************************************************)
(* C4: a recompressed table longer than the budget ends the run with       *)
(* BundleTooLarge (exit 1) and nothing, truncated or whole, is spliced or  *)
(* written; one that is not longer than the budget, equal included, is     *)
(* spliced whole and written.                                              *)
(***************************************************************************)
BudgetDecidesTheWrite ==
    /\ pc = "write" => Len(comp) <= limit
    /\ pc = "exit" /\ Patched =>
          IF Len(comp) > limit
          THEN error = "BundleTooLarge" /\ exitCode = 1 /\ writes = 0 /\ file = file0
          ELSE /\ Succeeded /\ writes = 1
               /\ SubSeq(file, offset + 1, offset + Len(comp)) = comp

WitBudgetExactlyMet == Succeeded /\ writes = 1 /\ Len(comp) = limit /\ file # file0

(***************************************************************************)
(* C5: find_font_bundle never returns a table whose length is not          *)
(* EXPECTED_SIZE; on a buffer in which no magic occurrence decompresses to *)
(* exactly that size, one with no magic occurrence included, the run ends  *)
(* in BundleNotFound with exit code 1.                                     *)
(***************************************************************************)
TableHasExpectedSizeOrNotFound ==
    pc # "locate" =>
        /\ Located => Len(bundle0) = EXPECTED_SIZE /\ ValidAt(raw, offset)
        /\ ValidOffsets(raw) = {} =>
              pc = "exit" /\ error = "BundleNotFound" /\ exitCode = 1 /\ ~Located

WitNotFoundAmongDecoys ==
    /\ pc = "exit" /\ error = "BundleNotFound"
    /\ \E i \in MagicOffsets(raw) :
          StreamAt(raw, i).ok /\ Len(StreamAt(raw, i).out) \notin {0, EXPECTED_SIZE}

RowsStoredLowByteFirst ==
    Patched =>
        \A c \in Selected(lang, cfg.font_num), r \in 0..15 :
            LET lo == bundle[c * 32 + 2 * r + 1]
                hi == bundle[c * 32 + 2 * r + 2]
                v == hi * 256 + lo
            IN  /\ lo \in 0..255 /\ hi \in 0..255
                /\ \A column \in 0..15 :
                      Bit(v, 15 - column) <=> rasterize_char(ft, c)[r + 1][column + 1]

WitAsymmetricGlyphStored ==
    /\ Patched /\ ft = "tri"
    /\ \E c \in Selected(lang, cfg.font_num), r \in 0..15 :
          /\ bundle[c * 32 + 2 * r + 1] # bundle[c * 32 + 2 * r + 2]
          /\ bundle[c * 32 + 2 * r + 1] \notin {0, 255}

(***************************************************************************)
(* C8: unpack(pack(b)) = b for the 16x16 grids b: the 32 bytes of the      *)
(* packing loop lose no pixel.                                             *)
(***************************************************************************)
UnpackInvertsPack ==
    pc = "packed" => Len(packed) = 32 /\ Unpack(packed) = bitmap

WitPackedTwoRowKinds ==
    /\ pc = "packed"
    /\ \E r1, r2 \in 1..16 :
          /\ bitmap[r1] # bitmap[r2]
          /\ \E c1, c2 \in 1..16 : c1 <= 8 /\ c2 > 8 /\ bitmap[r1][c1] /\ bitmap[r1][c2]
          /\ \E c1 \in 1..16 : bitmap[r2][c1]

(***************************************************************************)
(* C9: the splice of a successful run overwrites exactly the bytes         *)
(* buffer[offset : offset + len(comp)]: the length is unchanged, the bytes *)
(* before offset and from offset + len(comp) on keep their values (the gap *)
(* up to offset + budget is not zero-filled), so nothing at or beyond the  *)
(* next magic marker or the buffer end is modified.                        *)
(***************************************************************************)
SpliceOverwritesOnlyTheStream ==
    Succeeded /\ writes = 1 =>
        /\ Len(file) = Len(file0)
        /\ offset + Len(comp) <= offset + limit /\ offset + limit <= Len(file0)
        /\ \A i \in 0..(Len(file0) - 1) :
              IF i >= offset /\ i < offset + Len(comp)
              THEN file[i + 1] = comp[i - offset + 1]
              ELSE file[i + 1] = file0[i + 1]
        /\ MagicOffsets(file) \cap {i \in MagicOffsets(file0) : i > offset}
              = {i \in MagicOffsets(file0) : i > offset}

WitGapKeepsOldBytes ==
    /\ Succeeded /\ writes = 1 /\ file # file0
    /\ Len(comp) < limit
    /\ file0[offset + Len(comp) + 1] # 0
    /\ offset + limit < Len(file0)

(***************************************************************************)
(* C10: after a successful patch, locating the bundle again in the written *)
(* buffer selects the same offset and decompresses to the patched table:   *)
(* the slot of each patched codepoint holds pack(rasterize(codepoint,      *)
(* font)) and every other slot its bytes from before the patch.            *)
(***************************************************************************)
RelocateFindsPatchedTable ==
    Succeeded /\ writes = 1 =>
        LET again == find_font_bundle(file)
        IN  /\ again.found /\ again.pos = offset
            /\ again.dec = bundle
            /\ \A c \in 0..(NumCodepoints - 1) :
                  SubSeq(again.dec, c * 32 + 1, c * 32 + 32) =
                      IF c \in Selected(lang, cfg.font_num)
                      THEN Pack(rasterize_char(ft, c))
                      ELSE SubSeq(bundle0, c * 32 + 1, c * 32 + 32)

WitRelocatedBehindDecoy ==
    /\ Succeeded /\ writes = 1 /\ file # file0 /\ bundle # bundle0
    /\ \E i \in MagicOffsets(file0) : i < offset
    /\ offset + Len(comp) < Len(file)

====
